---- MODULE Spec2Model ----
(***************************************************************************)
(* NeuraChat (main.py): a console chatbot.  The loop at the bottom of the  *)
(* file reads a line, stores it in the held ChatState, runs the one-node   *)
(* graph (update_state) and prints the reply and the mood.  update_state   *)
(* calls chatbot_response, which asks the model for a reply and appends a  *)
(* turn, and every fifth turn summarize_conversation, which asks the       *)
(* model for a summary.                                                    *)
(*                                                                         *)
(* Texts are sequences of one-character strings, so that lower(), the `in` *)
(* substring test, "+" and "\n".join are computed as Python computes them. *)
(* A ChatState object is a record; its messages field is a reference into  *)
(* `lists`, because model_copy() is a shallow copy: the copy and the       *)
(* original share the one list object until somebody rebuilds it.          *)
(***************************************************************************)
EXTENDS Integers, Sequences, FiniteSets, TLC

VARIABLES
    pc,         \* where the process is: Idle (blocked in input()), Responding
                \* (blocked in the reply ollama.chat), Summarizing (blocked in
                \* the summary ollama.chat), Terminated (uncaught exception);
                \* Classify / Classified for the stand-alone classifier runs
    state,      \* the ChatState object held by the loop (main.py:65)
    arg,        \* the ChatState object update_state was called with
    new_state,  \* the local new_state of update_state
    lists,      \* the list objects: reference -> sequence of turns
    calls,      \* every ollama.chat call so far: request and outcome
    stdin,      \* the lines input() has returned so far
    stdout,     \* what the loop has printed, one entry per iteration
    error,      \* the exception that ended the process, "" if none
    pre,        \* the value arg had when update_state was entered
    completed,  \* number of update_state calls that returned
    message,    \* argument of the latest analyze_sentiment call
    label       \* its return value ("none" before the first call)

vars == <<pc, state, arg, new_state, lists, calls, stdin, stdout, error,
          pre, completed, message, label>>

-----------------------------------------------------------------------------
(* Bounds of the exploration *)

\* longest conversation explored with varied user inputs
MaxTurns == 6

\* longest conversation explored with a single user input
MaxTurnsLong == 11

\* longest conversation explored when progress is checked
MaxTurnsLive == 6

\* number of chunks a classified text is assembled from
MaxChunks == 2

-----------------------------------------------------------------------------
(* Program constants *)

\* main.py:47  len(new_state.messages) % 5
WindowSize == 5

\* main.py:16
NegativeWords ==
    << <<"s", "a", "d">>,
       <<"d", "e", "p", "r", "e", "s", "s", "e", "d">>,
       <<"a", "n", "x", "i", "o", "u", "s">>,
       <<"u", "p", "s", "e", "t">> >>

\* main.py:18
PositiveWords ==
    << <<"h", "a", "p", "p", "y">>,
       <<"e", "x", "c", "i", "t", "e", "d">>,
       <<"j", "o", "y", "f", "u", "l">> >>

\* main.py:36  "Summarize this conversation: "
SummarizePrefix ==
    <<"S", "u", "m", "m", "a", "r", "i", "z", "e", " ", "t", "h", "i", "s",
      " ", "c", "o", "n", "v", "e", "r", "s", "a", "t", "i", "o", "n", ":",
      " ">>

-----------------------------------------------------------------------------
(* The environment: what the user types and what the model service does *)

\* lines the user may type: a blank line and one with a negative keyword
UserInputs ==
    { <<>>,
      <<"I", " ", "a", "m", " ", "S", "A", "D">> }

\* the single line typed in the long runs
UserInputsLong == { <<"o", "k">> }

\* response["message"]["content"] of a call that returns; the service may
\* return an empty content
AdapterOutputs == { <<"H", "i">>, <<>> }

\* exceptions ollama.chat (or the subscripting of its result) may raise
ErrorKinds == { "ConnectionError", "ResponseError" }

\* pieces the classified texts are assembled from
Chunks ==
    { <<"s">>, <<"a", "d">>, <<"S", "a", "d">>, <<"H", "A", "P", "P", "Y">>,
      <<"u", "n">>, <<" ">>, <<"u", "p", "s", "e", "t">>,
      <<"j", "o", "y", "f", "u", "l">>,
      <<"D", "e", "p", "r", "e", "s", "s", "e", "d">>,
      <<"a", "n", "x", "i", "o", "u", "s">>,
      <<"e", "x", "c", "i", "t", "e", "d">>,
      <<"h", "a", "p", "p">>, <<"y">> }

RECURSIVE TextsOf(_)
TextsOf(n) ==
    IF n = 0 THEN { <<>> }
    ELSE LET shorter == TextsOf(n - 1)
         IN  shorter \cup { t \o c : t \in shorter, c \in Chunks }

Texts == TextsOf(MaxChunks)

-----------------------------------------------------------------------------
(* str.lower(), `in`, "\n".join *)

UpperCase ==
    <<"A", "B", "C", "D", "E", "F", "G", "H", "I", "J", "K", "L", "M", "N",
      "O", "P", "Q", "R", "S", "T", "U", "V", "W", "X", "Y", "Z">>

LowerCase ==
    <<"a", "b", "c", "d", "e", "f", "g", "h", "i", "j", "k", "l", "m", "n",
      "o", "p", "q", "r", "s", "t", "u", "v", "w", "x", "y", "z">>

LowerChar(c) ==
    IF \E i \in 1..Len(UpperCase) : UpperCase[i] = c
    THEN LowerCase[CHOOSE i \in 1..Len(UpperCase) : UpperCase[i] = c]
    ELSE c

\* message.lower()
Lower(s) == [i \in 1..Len(s) |-> LowerChar(s[i])]

\* word in s
Contains(word, s) ==
    \E i \in 0..(Len(s) - Len(word)) : SubSeq(s, i + 1, i + Len(word)) = word

\* any(word in s for word in words)
AnyIn(words, s) == \E k \in 1..Len(words) : Contains(words[k], s)

\* "\n".join(parts)
RECURSIVE JoinLines(_)
JoinLines(parts) ==
    IF Len(parts) = 0 THEN <<>>
    ELSE IF Len(parts) = 1 THEN parts[1]
    ELSE parts[1] \o <<"\n">> \o JoinLines(Tail(parts))

-----------------------------------------------------------------------------
(* ChatState and the list objects *)

Refs == 0..2
NoRef == -1

\* ChatState()  (main.py:7-12); its messages list is the object at ref
ChatState(ref) ==
    [messages |-> ref, sentiment |-> "neutral", summary |-> <<>>,
     feedback |-> <<>>, user_input |-> <<>>]

\* a name that is not bound to any object
NoState == [messages |-> NoRef, sentiment |-> "", summary |-> <<>>,
            feedback |-> <<>>, user_input |-> <<>>]

\* the value of an object: its fields, the list by content
ValueOf(st, heap) ==
    IF st.messages = NoRef THEN [st EXCEPT !.messages = <<>>]
    ELSE [st EXCEPT !.messages = heap[st.messages]]

\* a reference no object in `used` points to
FreshRef(used) == CHOOSE r \in Refs : r \notin used

\* state.model_copy(): a new object with the same field values, so the
\* same list object
model_copy(st) == st

\* ChatState(**st.model_dump()): a new object, its list rebuilt at ref
Rebuilt(st, heap, ref) ==
    [obj  |-> [st EXCEPT !.messages = ref],
     heap |-> [heap EXCEPT ![ref] = heap[st.messages]]]

-----------------------------------------------------------------------------
(* The functions of main.py *)

\* variant: the positive words are tested before the negative ones
analyze_sentiment_PositiveFirst(msg) ==
    IF AnyIn(PositiveWords, Lower(msg)) THEN "positive"
    ELSE IF AnyIn(NegativeWords, Lower(msg)) THEN "negative"
    ELSE "neutral"

\* analyze_sentiment  (main.py:15-20)
analyze_sentiment(msg) ==
    IF AnyIn(NegativeWords, Lower(msg)) THEN "negative"
    ELSE IF AnyIn(PositiveWords, Lower(msg)) THEN "positive"
    ELSE "neutral"

\* variant: the mood detected so far is sent along as a system message
ReplyRequest_WithMood(st) ==
    << [role |-> "system", content |-> st.sentiment],
       [role |-> "user", content |-> st.user_input] >>

\* the messages argument of the reply call  (main.py:25)
ReplyRequest(st) == << [role |-> "user", content |-> st.user_input] >>

\* variant: the turn appended last is left out of the prompt
SummaryRequest_SkipsLatest(st, heap) ==
    LET msgs == heap[st.messages]
        messages_text ==
            JoinLines([i \in 1..(Len(msgs) - 1) |->
                         msgs[i].user \o <<" ">> \o msgs[i].bot])
    IN  << [role |-> "user", content |-> SummarizePrefix \o messages_text] >>

\* variant: only the five turns since the previous summary are in the prompt
SummaryRequest_LastWindow(st, heap) ==
    LET msgs == heap[st.messages]
        from == IF Len(msgs) > WindowSize THEN Len(msgs) - WindowSize ELSE 0
        messages_text ==
            JoinLines([i \in 1..(Len(msgs) - from) |->
                         msgs[from + i].user \o <<" ">> \o msgs[from + i].bot])
    IN  << [role |-> "user", content |-> SummarizePrefix \o messages_text] >>

\* the messages argument of the summary call  (main.py:35-36)
SummaryRequest(st, heap) ==
    LET msgs == heap[st.messages]
        messages_text ==
            JoinLines([i \in 1..Len(msgs) |->
                         msgs[i].user \o <<" ">> \o msgs[i].bot])
    IN  << [role |-> "user", content |-> SummarizePrefix \o messages_text] >>

\* variant: the new turn is inserted in front of the list
chatbot_response_Prepends(st, heap, content) ==
    LET copy == model_copy(st)
        turn == [user |-> st.user_input, bot |-> content]
    IN  [obj  |-> [copy EXCEPT !.sentiment = analyze_sentiment(st.user_input)],
         heap |-> [heap EXCEPT ![copy.messages] = <<turn>> \o @]]

\* variant: an empty content is replaced by a placeholder text
chatbot_response_FillsEmpty(st, heap, content) ==
    LET copy == model_copy(st)
        bot  == IF content = <<>> THEN <<".", ".", ".">> ELSE content
        turn == [user |-> st.user_input, bot |-> bot]
    IN  [obj  |-> [copy EXCEPT !.sentiment = analyze_sentiment(st.user_input)],
         heap |-> [heap EXCEPT ![copy.messages] = Append(@, turn)]]

\* variant: a blank line is not classified, the mood stays what it was
chatbot_response_BlankKeepsMood(st, heap, content) ==
    LET copy == model_copy(st)
        turn == [user |-> st.user_input, bot |-> content]
        mood == IF st.user_input = <<>> THEN st.sentiment
                ELSE analyze_sentiment(st.user_input)
    IN  [obj  |-> [copy EXCEPT !.sentiment = mood],
         heap |-> [heap EXCEPT ![copy.messages] = Append(@, turn)]]

\* chatbot_response after the reply call returned content  (main.py:27-31)
chatbot_response(st, heap, content) ==
    LET copy == model_copy(st)
        turn == [user |-> st.user_input, bot |-> content]
    IN  [obj  |-> [copy EXCEPT !.sentiment = analyze_sentiment(st.user_input)],
         heap |-> [heap EXCEPT ![copy.messages] = Append(@, turn)]]

\* variant: the result is built from the turns and the summary alone, the
\* other fields taking their defaults
summarize_conversation_DropsFields(st, heap, content) ==
    [obj  |-> [ChatState(st.messages) EXCEPT !.summary = content],
     heap |-> heap]

\* summarize_conversation after the summary call returned content
\* (main.py:38-41)
summarize_conversation(st, heap, content) ==
    LET copy == model_copy(st)
    IN  [obj  |-> [copy EXCEPT !.summary = content],
         heap |-> heap]

\* variant: the summary is made one turn late
SummaryDue_OneLate(st, heap) == Len(heap[st.messages]) % WindowSize = 1

\* variant: the summary is made after every turn
SummaryDue_EveryTurn(st, heap) == Len(heap[st.messages]) % 1 = 0

\* the test of main.py:47
SummaryDue(st, heap) == Len(heap[st.messages]) % WindowSize = 0

-----------------------------------------------------------------------------
(* The process *)

Init ==
    /\ pc = "Idle"
    /\ state = ChatState(0)
    /\ arg = NoState
    /\ new_state = NoState
    /\ lists = [r \in Refs |-> <<>>]
    /\ calls = <<>>
    /\ stdin = <<>>
    /\ stdout = <<>>
    /\ error = ""
    /\ pre = ValueOf(NoState, [r \in Refs |-> <<>>])
    /\ completed = 0
    /\ message = <<>>
    /\ label = "none"

\* variant: the next line is read while the summary call is still out
Input_WithoutWaiting(inputs, maxTurns) ==
    /\ pc \in {"Idle", "Summarizing"}
    /\ Len(lists[state.messages]) < maxTurns
    /\ \E user_input \in inputs, sameObject \in BOOLEAN :
         LET held == [state EXCEPT !.user_input = user_input]
             kept == [r \in Refs |->
                        IF r = held.messages THEN lists[r] ELSE <<>>]
             made == Rebuilt(held, kept, FreshRef({held.messages}))
         IN  /\ state' = held
             /\ arg' = IF sameObject THEN held ELSE made.obj
             /\ lists' = IF sameObject THEN kept ELSE made.heap
             /\ pre' = ValueOf(held, kept)
             /\ stdin' = Append(stdin, user_input)
    /\ new_state' = NoState
    /\ pc' = "Responding"
    /\ UNCHANGED <<calls, stdout, error, completed, message, label>>

\* main.py:67-71 and 44-45, 24: a line is read and stored in the held state,
\* graph.invoke hands a ChatState to update_state, which enters
\* chatbot_response and blocks in ollama.chat.  Whether the node receives
\* the caller's object or a validated copy of it is decided inside langgraph
\* and pydantic, not in main.py: both are explored.
Input(inputs, maxTurns) ==
    /\ pc = "Idle"
    /\ Len(lists[state.messages]) < maxTurns
    /\ \E user_input \in inputs, sameObject \in BOOLEAN :
         LET held == [state EXCEPT !.user_input = user_input]
             kept == [r \in Refs |->
                        IF r = held.messages THEN lists[r] ELSE <<>>]
             made == Rebuilt(held, kept, FreshRef({held.messages}))
         IN  /\ state' = held
             /\ arg' = IF sameObject THEN held ELSE made.obj
             /\ lists' = IF sameObject THEN kept ELSE made.heap
             /\ pre' = ValueOf(held, kept)
             /\ stdin' = Append(stdin, user_input)
    /\ new_state' = NoState
    /\ pc' = "Responding"
    /\ UNCHANGED <<calls, stdout, error, completed, message, label>>

\* main.py:50 and 72-78: update_state returns a rebuilt ChatState, the loop
\* replaces the held state by it and prints the reply and the mood
Return(st, heap) ==
    LET made == Rebuilt(st, heap, FreshRef({state.messages, arg.messages}))
        msgs == made.heap[made.obj.messages]
    IN  /\ state' = made.obj
        /\ lists' = made.heap
        /\ stdout' = Append(stdout, [bot  |-> msgs[Len(msgs)].bot,
                                     mood |-> made.obj.sentiment])
        /\ completed' = completed + 1
        /\ pc' = "Idle"

\* main.py:25-31, 47: the reply call returns; the turn is appended and the
\* sentiment set; then either the summary call is made or update_state
\* returns
ReplyOk ==
    /\ pc = "Responding"
    /\ \E content \in AdapterOutputs :
         LET r == chatbot_response(arg, lists, content)
         IN  /\ calls' = Append(calls, [kind |-> "reply",
                                        messages |-> ReplyRequest(arg),
                                        ok |-> TRUE, content |-> content,
                                        error |-> ""])
             /\ new_state' = r.obj
             /\ message' = arg.user_input
             /\ label' = analyze_sentiment(arg.user_input)
             /\ IF SummaryDue(r.obj, r.heap)
                THEN /\ pc' = "Summarizing"
                     /\ lists' = r.heap
                     /\ UNCHANGED <<state, stdout, completed>>
                ELSE Return(r.obj, r.heap)
    /\ UNCHANGED <<arg, stdin, error, pre>>

\* variant: the user's turn is stored before the reply call is made, so a
\* call that raises leaves it behind
ReplyFail_TurnStoredFirst ==
    /\ pc = "Responding"
    /\ \E kind \in ErrorKinds :
         /\ calls' = Append(calls, [kind |-> "reply",
                                    messages |-> ReplyRequest(arg),
                                    ok |-> FALSE, content |-> <<>>,
                                    error |-> kind])
         /\ error' = kind
    /\ lists' = [lists EXCEPT ![arg.messages] =
                     Append(@, [user |-> arg.user_input, bot |-> <<>>])]
    /\ pc' = "Terminated"
    /\ UNCHANGED <<state, arg, new_state, stdin, stdout, pre, completed,
                   message, label>>

\* main.py:25: the reply call raises; nothing catches it
ReplyFail ==
    /\ pc = "Responding"
    /\ \E kind \in ErrorKinds :
         /\ calls' = Append(calls, [kind |-> "reply",
                                    messages |-> ReplyRequest(arg),
                                    ok |-> FALSE, content |-> <<>>,
                                    error |-> kind])
         /\ error' = kind
    /\ pc' = "Terminated"
    /\ UNCHANGED <<state, arg, new_state, lists, stdin, stdout, pre,
                   completed, message, label>>

\* main.py:36-41, 48-50: the summary call returns
SummarizeOk ==
    /\ pc = "Summarizing"
    /\ \E content \in AdapterOutputs :
         LET r == summarize_conversation(new_state, lists, content)
         IN  /\ calls' = Append(calls, [kind |-> "summary",
                                        messages |->
                                            SummaryRequest(new_state, lists),
                                        ok |-> TRUE, content |-> content,
                                        error |-> ""])
             /\ new_state' = r.obj
             /\ Return(r.obj, r.heap)
    /\ UNCHANGED <<arg, stdin, error, pre, message, label>>

\* variant: a summary call that raises is caught and the turn goes on
\* without a new summary
SummarizeFail_Recovers ==
    /\ pc = "Summarizing"
    /\ \E kind \in ErrorKinds :
         /\ calls' = Append(calls, [kind |-> "summary",
                                    messages |->
                                        SummaryRequest(new_state, lists),
                                    ok |-> FALSE, content |-> <<>>,
                                    error |-> kind])
         /\ error' = kind
    /\ Return(new_state, lists)
    /\ UNCHANGED <<arg, new_state, stdin, pre, message, label>>

\* variant: a summary call that raises is made again, as often as it raises
SummarizeFail_Retries ==
    /\ pc = "Summarizing"
    /\ \E kind \in ErrorKinds \ {error} : error' = kind
    /\ UNCHANGED <<pc, state, arg, new_state, lists, calls, stdin, stdout,
                   pre, completed, message, label>>

\* main.py:36: the summary call raises; nothing catches it
SummarizeFail ==
    /\ pc = "Summarizing"
    /\ \E kind \in ErrorKinds :
         /\ calls' = Append(calls, [kind |-> "summary",
                                    messages |->
                                        SummaryRequest(new_state, lists),
                                    ok |-> FALSE, content |-> <<>>,
                                    error |-> kind])
         /\ error' = kind
    /\ pc' = "Terminated"
    /\ UNCHANGED <<state, arg, new_state, lists, stdin, stdout, pre,
                   completed, message, label>>

Next ==
    \/ Input(UserInputs, MaxTurns)
    \/ ReplyOk
    \/ ReplyFail
    \/ SummarizeOk
    \/ SummarizeFail

Spec == Init /\ [][Next]_vars

\* the same process, the user typing one fixed line, followed for longer
NextLong ==
    \/ Input(UserInputsLong, MaxTurnsLong)
    \/ ReplyOk
    \/ ReplyFail
    \/ SummarizeOk
    \/ SummarizeFail

SpecLong == Init /\ [][NextLong]_vars

\* the same process when the model service answers every call: main.py
\* blocks in ollama.chat (lines 25 and 36) until the call returns or raises,
\* and does nothing else in between
NextLive ==
    \/ Input(UserInputsLong, MaxTurnsLive)
    \/ ReplyOk
    \/ ReplyFail
    \/ SummarizeOk
    \/ SummarizeFail

SpecLive ==
    /\ Init
    /\ [][NextLive]_vars
    /\ WF_vars(ReplyOk \/ ReplyFail)
    /\ WF_vars(SummarizeOk \/ SummarizeFail)

-----------------------------------------------------------------------------
(* analyze_sentiment on its own *)

InitClassify ==
    /\ pc = "Classify"
    /\ state = ChatState(0)
    /\ arg = NoState
    /\ new_state = NoState
    /\ lists = [r \in Refs |-> <<>>]
    /\ calls = <<>>
    /\ stdin = <<>>
    /\ stdout = <<>>
    /\ error = ""
    /\ pre = ValueOf(NoState, [r \in Refs |-> <<>>])
    /\ completed = 0
    /\ message \in Texts
    /\ label = "none"

\* main.py:15-20 applied to the chosen text
Classify ==
    /\ pc = "Classify"
    /\ label' = analyze_sentiment(message)
    /\ pc' = "Classified"
    /\ UNCHANGED <<state, arg, new_state, lists, calls, stdin, stdout, error,
                   pre, completed, message>>

NextClassify == Classify

SpecClassify == InitClassify /\ [][NextClassify]_vars

-----------------------------------------------------------------------------
(* Properties *)

Last(s) == s[Len(s)]

\* the turns of an object
TurnsOf(st) == lists[st.messages]

\* update_state has just returned to the loop
Returned == pc = "Idle" /\ completed > 0

\* the process died in the reply call / in the summary call
ReplyFailed == pc = "Terminated" /\ Last(calls).kind = "reply"
SummaryFailed == pc = "Terminated" /\ Last(calls).kind = "summary"

\* C1: when update_state returns a state whose number of turns is a
\* positive multiple of 5, the summary call was made and summary is its
\* result; when the number is not a multiple of 5, no summary call was made
\* and summary is what it was in the state passed in.
C1_SummaryOnlyEveryFifth ==
    Returned =>
        IF Len(TurnsOf(state)) % 5 = 0
        THEN /\ Last(calls).kind = "summary"
             /\ Last(calls).ok
             /\ state.summary = Last(calls).content
        ELSE /\ Last(calls).kind = "reply"
             /\ state.summary = pre.summary

\* a sixth turn was added to a conversation that has a summary
C1_Witness ==
    /\ Returned
    /\ Len(TurnsOf(state)) = 6
    /\ state.summary # <<>>

\* C2: the number of turns equals the number of update_state calls that
\* returned, both in the state the loop holds after a return and in the
\* state the caller is left with after a failed call.
C2_TurnsCountReturns ==
    /\ pc = "Idle" => Len(TurnsOf(state)) = completed
    /\ pc = "Terminated" => Len(TurnsOf(arg)) = completed

\* C3: when the reply call raises, the exception reaches the loop, no
\* further call is made, and the state update_state was called with has the
\* value it had on entry.
C3_ReplyFailureLeavesState ==
    ReplyFailed =>
        /\ error = Last(calls).error
        /\ error \in ErrorKinds
        /\ \A i \in 1..(Len(calls) - 1) : calls[i].ok
        /\ ValueOf(arg, lists) = pre
        /\ ValueOf(state, lists) = pre

\* the reply call failed on a conversation that already had turns
C3_Witness ==
    /\ ReplyFailed
    /\ Len(pre.messages) >= 2
    /\ pre.sentiment = "negative"

\* C4: when the summary call raises, the state update_state was called
\* with has the value it had on entry.
C4_SummaryFailureLeavesState ==
    SummaryFailed => ValueOf(arg, lists) = pre

\* C5: after update_state returned, the state it was called with has the
\* value it had on entry.
C5_InputNotMutated ==
    Returned => ValueOf(arg, lists) = pre

\* sentiment of an object agrees with its last turn
SentimentCurrent(st) ==
    LET turns == TurnsOf(st)
    IN  st.sentiment = IF turns = <<>> THEN "neutral"
                       ELSE analyze_sentiment(Last(turns).user)

\* C6: sentiment is neutral while there are no turns and otherwise the
\* class of the user text of the last turn, both in the state the loop holds
\* after a return and in the state the caller is left with after a failed
\* call.
C6_SentimentNeverStale ==
    /\ pc = "Idle" => SentimentCurrent(state)
    /\ pc = "Terminated" => SentimentCurrent(arg)

\* turns 1..n, each as user + " " + bot, separated by newlines
RECURSIVE Transcript(_, _)
Transcript(turns, n) ==
    IF n = 0 THEN <<>>
    ELSE IF n = 1 THEN turns[1].user \o <<" ">> \o turns[1].bot
    ELSE Transcript(turns, n - 1) \o <<"\n">>
             \o turns[n].user \o <<" ">> \o turns[n].bot

\* C7: when update_state returns a state whose number of turns is a
\* positive multiple of 5, its summary is the content the model returned
\* for a single user message: "Summarize this conversation: " followed by
\* all turns of the returned state in order, the one just appended included.
C7_SummaryOfAllTurns ==
    (Returned /\ Len(TurnsOf(state)) % 5 = 0) =>
        LET turns == TurnsOf(state)
            call  == Last(calls)
        IN  /\ call.kind = "summary"
            /\ call.messages =
                   << [role |-> "user",
                       content |-> SummarizePrefix
                                       \o Transcript(turns, Len(turns))] >>
            /\ state.summary = call.content

\* the tenth turn replaced a non-empty summary by a different one
C7_Witness ==
    /\ Returned
    /\ Len(TurnsOf(state)) = 10
    /\ pre.summary # <<>>
    /\ state.summary # pre.summary

\* the reply call of the latest update_state call that returned
ReplyCall ==
    IF Last(calls).kind = "reply" THEN Last(calls)
    ELSE calls[Len(calls) - 1]

\* C8: when update_state returns, the turns of the state passed in are a
\* prefix of the turns of the returned state, which has exactly one more
\* turn: the user input of the state passed in and the content the model
\* returned for that input.
C8_TurnsAppendOnly ==
    Returned =>
        LET turns == TurnsOf(state)
            n     == Len(turns)
        IN  /\ n = Len(pre.messages) + 1
            /\ SubSeq(turns, 1, n - 1) = pre.messages
            /\ turns[n].user = pre.user_input
            /\ ReplyCall.kind = "reply"
            /\ ReplyCall.messages[1].content = pre.user_input
            /\ turns[n].bot = ReplyCall.content

\* a turn was appended after two turns that differ from it
C8_Witness ==
    /\ Returned
    /\ Len(TurnsOf(state)) = 3
    /\ TurnsOf(state)[1] # TurnsOf(state)[3]
    /\ TurnsOf(state)[2] # TurnsOf(state)[3]

\* C9: a summary call that returns yields a state that differs from the
\* state summarize_conversation was called with in summary only, and leaves
\* the turns of that state as they were; a summary call that raises leaves
\* the state summarize_conversation was called with as it was.
C9_SummarizerChangesSummaryOnly ==
    [][ /\ (pc = "Summarizing" /\ pc' = "Idle") =>
            /\ [ValueOf(new_state', lists') EXCEPT !.summary = <<>>]
                   = [ValueOf(new_state, lists) EXCEPT !.summary = <<>>]
            /\ [ValueOf(state', lists') EXCEPT !.summary = <<>>]
                   = [ValueOf(new_state, lists) EXCEPT !.summary = <<>>]
            /\ lists'[new_state.messages] = lists[new_state.messages]
        /\ (pc = "Summarizing" /\ pc' = "Terminated") =>
            /\ new_state' = new_state
            /\ ValueOf(new_state', lists') = ValueOf(new_state, lists)
      ]_vars

\* a summary was stored in a state with turns and a sentiment of its own
C9_Witness ==
    /\ Returned
    /\ Last(calls).kind = "summary"
    /\ state.summary # <<>>
    /\ state.sentiment = "negative"
    /\ Len(TurnsOf(state)) = 5

\* the reference rule: a word occurs in a text when, at some offset, the
\* characters of the text are those of the word up to case
OccursAt(word, text, k) ==
    \A j \in 1..Len(word) : LowerChar(text[k + j]) = word[j]

Mentions(text, words) ==
    \E word \in words :
        \E k \in 0..(Len(text) - Len(word)) : OccursAt(word, text, k)

RefNegative ==
    { <<"s", "a", "d">>,
      <<"d", "e", "p", "r", "e", "s", "s", "e", "d">>,
      <<"a", "n", "x", "i", "o", "u", "s">>,
      <<"u", "p", "s", "e", "t">> }

RefPositive ==
    { <<"h", "a", "p", "p", "y">>,
      <<"e", "x", "c", "i", "t", "e", "d">>,
      <<"j", "o", "y", "f", "u", "l">> }

\* C10: analyze_sentiment returns negative for a text that mentions a
\* negative word (whether or not it mentions a positive one), otherwise
\* positive for a text that mentions a positive word, otherwise neutral.
C10_ClassifyMatchesRule ==
    pc = "Classified" =>
        label = IF Mentions(message, RefNegative) THEN "negative"
                ELSE IF Mentions(message, RefPositive) THEN "positive"
                ELSE "neutral"

\* a text with a positive word in capitals and a negative word was
\* classified
C10_Witness ==
    /\ pc = "Classified"
    /\ Contains(<<"H", "A", "P", "P", "Y">>, message)
    /\ Mentions(message, RefNegative)
    /\ label = "negative"

\* the reply call of the current update_state call has been made
ReplyMade == calls # <<>> /\ pc \in {"Idle", "Summarizing", "Terminated"}

\* C11: the reply request is one user message whose content is the line
\* just read; nothing else of the state update_state was called with (its
\* turns, sentiment, summary) is in it.
C11_ReplyRequestIsInputOnly ==
    ReplyMade =>
        /\ ReplyCall.kind = "reply"
        /\ ReplyCall.messages =
               << [role |-> "user", content |-> Last(stdin)] >>
        /\ Last(stdin) = pre.user_input

\* a blank line was sent from a state with turns, a negative sentiment and
\* a summary
C11_Witness ==
    /\ Returned
    /\ pre.user_input = <<>>
    /\ Len(pre.messages) = 5
    /\ pre.sentiment = "negative"
    /\ pre.summary # <<>>

\* the control states of the loop and the moves between them
LoopStates == {"Idle", "Responding", "Summarizing", "Terminated"}

LoopMoves ==
    { <<"Idle", "Responding">>,
      <<"Responding", "Idle">>,
      <<"Responding", "Summarizing">>,
      <<"Summarizing", "Idle">>,
      <<"Responding", "Terminated">>,
      <<"Summarizing", "Terminated">> }

\* C12: the loop moves Idle -> Responding -> (Summarizing ->) Idle or ends;
\* a line is read only in Idle, when every line read before has been
\* answered, its state stored and its output printed; at most one
\* update_state call is in progress, and none in Idle.
C12_LoopIsSequential ==
    [][ /\ pc \in LoopStates /\ pc' \in LoopStates
        /\ <<pc, pc'>> \in LoopMoves
        /\ stdin' # stdin =>
               /\ pc = "Idle"
               /\ Len(stdin) = completed
               /\ Len(stdout) = completed
               /\ Len(TurnsOf(state)) = completed
               /\ Len(stdin') = Len(stdin) + 1
        /\ Len(stdin') - completed' \in {0, 1}
        /\ pc' = "Idle" <=> Len(stdin') = completed'
      ]_vars

\* a line was read after an iteration that went through the summary call
C12_Witness ==
    /\ pc = "Responding"
    /\ completed = 5
    /\ Len(stdin) = 6
    /\ calls # <<>>
    /\ Last(calls).kind = "summary"

\* this step is an ollama.chat call that raises
CallRaises == Len(calls') > Len(calls) /\ ~Last(calls').ok

\* C13: a call that raises ends the process: the exception it raised is the
\* one that reaches the loop, nothing is printed for the line, the loop's
\* state variable is not rebound, and once the process has ended no line is
\* read and nothing else happens.
C13_BackendErrorIsTerminal ==
    [][ /\ CallRaises =>
               /\ pc' = "Terminated"
               /\ error' = Last(calls').error
               /\ error' \in ErrorKinds
               /\ stdout' = stdout
               /\ Len(stdout') = Len(stdin') - 1
               /\ state' = state
               /\ stdin' = stdin
               /\ completed' = completed
        /\ pc # "Terminated"
      ]_vars

\* the process ended in the summary call of the fifth line
C13_Witness ==
    /\ SummaryFailed
    /\ Len(stdin) = 5
    /\ Len(stdout) = 4
    /\ error = "ResponseError"

IsReplyCall(c) == c.kind = "reply"
IsSummaryCall(c) == c.kind = "summary"

\* C14 as stated: update_state never returns with a turn whose bot text is
\* an empty content the reply call returned, nor with a summary that is an
\* empty content the summary call returned.
C14_EmptyResponseIsAnError ==
    Returned =>
        /\ ~(ReplyCall.ok /\ ReplyCall.content = <<>>
                /\ Last(TurnsOf(state)).bot = <<>>)
        /\ ~(Last(calls).kind = "summary" /\ Last(calls).ok
                /\ Last(calls).content = <<>> /\ state.summary = <<>>)

\* C14 as amended: only a call that raises is an error, and it ends the
\* process; whatever content a call returns, the empty text included, is
\* taken as text: turn k carries the content of the k-th reply call and the
\* summary is the content of the latest summary call.
C14_ReturnedContentIsStoredAsIs ==
    /\ \A i \in 1..Len(calls) :
           ~calls[i].ok =>
               /\ i = Len(calls)
               /\ pc = "Terminated"
               /\ error = calls[i].error
    /\ pc = "Idle" =>
           LET turns     == TurnsOf(state)
               replies   == SelectSeq(calls, IsReplyCall)
               summaries == SelectSeq(calls, IsSummaryCall)
           IN  /\ Len(replies) = Len(turns)
               /\ \A k \in 1..Len(turns) :
                      /\ replies[k].ok
                      /\ turns[k].bot = replies[k].content
               /\ summaries # <<>> =>
                      /\ Last(summaries).ok
                      /\ state.summary = Last(summaries).content

\* an empty content was stored as the bot text of the fifth turn and an
\* empty content as the summary
C14_Witness ==
    /\ Returned
    /\ Len(TurnsOf(state)) = 5
    /\ ReplyCall.ok /\ ReplyCall.content = <<>>
    /\ Last(TurnsOf(state)).bot = <<>>
    /\ Last(calls).kind = "summary" /\ Last(calls).ok
    /\ Last(calls).content = <<>>
    /\ state.summary = <<>>

\* C15: a blank line is handled like any other: the reply call is made
\* with the empty content, the returned state has one more turn, whose user
\* text is empty, the turn counts for the every-fifth summary, and the
\* sentiment is neutral.
C15_BlankInputIsProcessed ==
    (Returned /\ Last(stdin) = <<>>) =>
        LET turns == TurnsOf(state)
        IN  /\ ReplyCall.messages = << [role |-> "user", content |-> <<>>] >>
            /\ Len(turns) = Len(pre.messages) + 1
            /\ Last(turns).user = <<>>
            /\ state.sentiment = "neutral"
            /\ Len(stdout) = Len(stdin)
            /\ Last(stdout).mood = "neutral"
            /\ Last(calls).kind = "summary" <=> Len(turns) % 5 = 0

\* a blank fifth line, after a line classified negative, set off the summary
C15_Witness ==
    /\ Returned
    /\ Last(stdin) = <<>>
    /\ pre.sentiment = "negative"
    /\ Len(TurnsOf(state)) = 5
    /\ Last(calls).kind = "summary"

\* C16: if every ollama.chat call returns or raises, each line read is
\* followed either by the loop back in input() with the reply and the mood of
\* that line printed, or by the end of the process.
C16_StepRunsToCompletion ==
    \A n \in 1..MaxTurnsLive :
        (pc = "Responding" /\ Len(stdin) = n)
            ~> \/ pc = "Idle" /\ Len(stdout) = n
               \/ pc = "Terminated"

\* the fifth line was answered, summarized and printed
C16_Witness ==
    /\ pc = "Idle"
    /\ Len(stdin) = 5
    /\ Len(stdout) = 5
    /\ Len(calls) = 6

\* the calls n returned update_state calls make between them
CallsFor(n) == n + (n \div 5)

\* C17: the calls come in a fixed order: five reply calls, a summary call,
\* five reply calls, a summary call, ...; a call is made only after the one
\* before it returned; a summary call is out only when the reply call of the
\* same line returned and its turn, a fifth one, is appended; back in input()
\* after N lines, N + floor(N/5) calls have been made, one more when the
\* process ended in a reply call, two more when it ended in the summary call.
C17_CallsPerInvocation ==
    /\ \A i \in 1..Len(calls) :
           /\ calls[i].kind = IF i % 6 = 0 THEN "summary" ELSE "reply"
           /\ i < Len(calls) => calls[i].ok
    /\ pc = "Idle" => Len(calls) = CallsFor(completed)
    /\ pc = "Responding" => Len(calls) = CallsFor(completed)
    /\ pc = "Summarizing" =>
           /\ Len(calls) = CallsFor(completed) + 1
           /\ Last(calls).kind = "reply" /\ Last(calls).ok
           /\ Len(TurnsOf(new_state)) = completed + 1
           /\ (completed + 1) % 5 = 0
           /\ Last(TurnsOf(new_state)).bot = Last(calls).content
    /\ ReplyFailed => Len(calls) = CallsFor(completed) + 1
    /\ SummaryFailed =>
           /\ Len(calls) = CallsFor(completed) + 2
           /\ (completed + 1) % 5 = 0
           /\ calls[Len(calls) - 1].ok

\* ten lines were answered with twelve calls
C17_Witness ==
    /\ pc = "Idle"
    /\ completed = 10
    /\ Len(calls) = 12
    /\ Len(TurnsOf(state)) = 10

\* the loop has control: it is in input(), or has read a line and handed
\* its state to graph.invoke, where nothing has happened to it yet
LoopHolds == pc \in {"Idle", "Responding"}

\* C18: whenever the loop holds a state with n turns, its summary is empty
\* and no summary call was made if n < 5; otherwise floor(n/5) summary calls
\* were made, all returned, and the summary is the content of the latest,
\* whose prompt is the prefix followed by exactly the first 5*floor(n/5)
\* turns.
C18_SummaryCoversFullWindows ==
    LoopHolds =>
        LET turns     == TurnsOf(state)
            n         == Len(turns)
            covered   == 5 * (n \div 5)
            summaries == SelectSeq(calls, IsSummaryCall)
        IN  /\ Len(summaries) = n \div 5
            /\ \A k \in 1..Len(summaries) : summaries[k].ok
            /\ IF n < 5
               THEN state.summary = <<>>
               ELSE /\ Last(summaries).messages =
                           << [role |-> "user",
                               content |-> SummarizePrefix
                                               \o Transcript(turns, covered)] >>
                    /\ state.summary = Last(summaries).content

\* the loop holds eleven turns and a summary made of the first ten
C18_Witness ==
    /\ pc = "Idle"
    /\ Len(TurnsOf(state)) = 11
    /\ state.summary # <<>>
    /\ Len(SelectSeq(calls, IsSummaryCall)) = 2

====
